---- MODULE Spec2Model ----
(***************************************************************************)
(* Model of pyccl/nl_pt/power.py: the perturbation-theory calculator       *)
(* (PTCalculator) with its cached correlator bundles, the combination      *)
(* formulas get_pgg / get_pgm / get_pim / get_pgi / get_pii and the        *)
(* orchestrator get_pt_pk2d.                                               *)
(*                                                                         *)
(* Numbers.  numpy arrays are modelled with their shape and numpy's        *)
(* broadcasting rules.  Floating point values are modelled as exact        *)
(* rationals: an array carries integer numerators and one common positive  *)
(* denominator, so that the literal coefficients 0.5, 0.25, 4./3., 8./9.   *)
(* are represented exactly.  A scale factor a is represented by the        *)
(* positive integer n with a = 1/n (n = 1 is a = 1.0, n = 2 is a = 0.5),   *)
(* so that the redshift z = 1/a - 1 is n - 1.  A wavenumber of the grid is *)
(* represented by its ordinal in the log-spaced grid.                      *)
(*                                                                         *)
(* External collaborators (the cosmology evaluator, the FAST-PT engine,    *)
(* the tracers' bias functions) are opaque in the source; they are         *)
(* modelled as fixed deterministic functions of their arguments whose      *)
(* values differ wherever their arguments differ in a way that matters.    *)
(***************************************************************************)
EXTENDS Integers, Sequences, FiniteSets, TLC

VARIABLES
    ptc,    \* the shared PTCalculator object (flags, grid, engine, cache)
    op,     \* the operation performed last, with its arguments
    ret,    \* what that operation returned or raised
    log,    \* the calls that operation made, in order (update_pk, engine,
            \* combination formula, warnings.warn)
    cnt     \* running totals over the whole behaviour

vars == <<ptc, op, ret, log, cnt>>

\* Bounds of the model.
MaxNk == 3
MaxNa == 2
NumCosmo == 2
MaxOps == 2

(***************************************************************************)
(* numpy arrays                                                            *)
(***************************************************************************)
RECURSIVE GCD(_, _)
GCD(a, b) == IF b = 0 THEN a ELSE GCD(b, a % b)

LCM(a, b) == (a * b) \div GCD(a, b)

Max(a, b) == IF a >= b THEN a ELSE b

\* An array: nd is the number of dimensions (0, 1 or 2), r x c its shape
\* aligned to the right as numpy aligns it (a 0-d array is 1 x 1, a 1-d
\* array of length n is 1 x n), m its entries as rows, den the common
\* denominator.
\* nd = -1 is the ValueError numpy raises when shapes cannot be broadcast,
\* nd = -2 the TypeError of subscripting None, nd = -3 the IndexError of
\* indexing with more indices than dimensions.
Arr(nd, r, c, m, den) == [nd |-> nd, r |-> r, c |-> c, m |-> m, den |-> den]

Scalar(n) == Arr(0, 1, 1, <<<<n>>>>, 1)

Frac(n, d) == Arr(0, 1, 1, <<<<n>>>>, d)

Vec(s) == Arr(1, 1, Len(s), <<s>>, 1)

BroadcastError == Arr(-1, 0, 0, <<>>, 1)

NoneSubscriptError == Arr(-2, 0, 0, <<>>, 1)

IndexError == Arr(-3, 0, 0, <<>>, 1)

IsErr(a) == a.nd < 0

NRows(a) == a.r

NCols(a) == a.c

Shape(a) == IF a.nd = 2 THEN <<a.r, a.c>>
            ELSE IF a.nd = 1 THEN <<a.c>> ELSE <<>>

At(a, i, j) == a.m[IF a.r = 1 THEN 1 ELSE i][IF a.c = 1 THEN 1 ELSE j]

Compatible(a, b) ==
    /\ (a.r = b.r \/ a.r = 1 \/ b.r = 1)
    /\ (a.c = b.c \/ a.c = 1 \/ b.c = 1)

\* The first error raised wins.
FirstErr(a, b) == IF IsErr(a) THEN a ELSE b

\* Two statements in order: what the first raised, else the second.
Then(first, second) == IF IsErr(first) THEN first ELSE second

\* a * b
Mul(a, b) ==
    IF IsErr(a) \/ IsErr(b) THEN FirstErr(a, b)
    ELSE IF ~Compatible(a, b) THEN BroadcastError
    ELSE Arr(Max(a.nd, b.nd), Max(a.r, b.r), Max(a.c, b.c),
             [i \in 1..Max(a.r, b.r) |->
                [j \in 1..Max(a.c, b.c) |-> At(a, i, j) * At(b, i, j)]],
             a.den * b.den)

\* a + s * b with s = 1 (a + b) or s = -1 (a - b)
AddSub(a, b, s) ==
    IF IsErr(a) \/ IsErr(b) THEN FirstErr(a, b)
    ELSE IF ~Compatible(a, b) THEN BroadcastError
    ELSE LET L == LCM(a.den, b.den)
         IN  Arr(Max(a.nd, b.nd), Max(a.r, b.r), Max(a.c, b.c),
                 [i \in 1..Max(a.r, b.r) |->
                    [j \in 1..Max(a.c, b.c) |->
                        At(a, i, j) * (L \div a.den) + s * At(b, i, j) * (L \div b.den)]],
                 L)

Add(a, b) == AddSub(a, b, 1)

Sub(a, b) == AddSub(a, b, -1)

\* x[None, :] of a 1-d array: shape (1, n)
RowOf(x) == IF IsErr(x) THEN x
            ELSE IF x.nd = 1 THEN Arr(2, 1, x.c, x.m, x.den)
            ELSE IndexError

\* x[:, None] of a 1-d array: shape (n, 1)
ColOf(x) == IF IsErr(x) THEN x
            ELSE IF x.nd = 1
                 THEN Arr(2, x.c, 1, [i \in 1..x.c |-> <<x.m[1][i]>>], x.den)
            ELSE IndexError

\* x.T of a 2-d array
Transpose(x) == IF IsErr(x) THEN x
                ELSE IF x.nd = 2
                     THEN Arr(2, x.c, x.r, [j \in 1..x.c |->
                                    [i \in 1..x.r |-> x.m[i][j]]], x.den)
                ELSE x

\* np.array([v_1, ..., v_n]) of 1-d arrays of one length: shape (n, len)
Stack(vs) == Arr(2, Len(vs), vs[1].c, [i \in 1..Len(vs) |-> vs[i].m[1]], 1)

\* x ** 2
Square(x) == Mul(x, x)

\* The value of entry (i, j) as a pair <<numerator, denominator>>; two
\* entries are the same number when they cross-multiply to the same value.
SameNumber(n1, d1, n2, d2) == n1 * d2 = n2 * d1

SameArray(a, b) ==
    /\ a.nd = b.nd
    /\ (a.nd >= 0 =>
          /\ NRows(a) = NRows(b)
          /\ NCols(a) = NCols(b)
          /\ \A i \in 1..NRows(a) : \A j \in 1..NCols(a) :
                SameNumber(a.m[i][j], a.den, b.m[i][j], b.den))

\* np.log of a wavenumber: kept symbolic
LogOf(k) == <<"log", k>>

(***************************************************************************)
(* External collaborators                                                  *)
(***************************************************************************)
None == <<>>

\* Tracers (pyccl.nl_pt.tracers).  A bias function is z |-> c0 + c1 * z,
\* written <<c0, c1>>; applied to an array of redshifts it returns an array
\* of the same shape.
BiasAt(f, z_arr) == Vec([i \in 1..NCols(z_arr) |-> f[1] + f[2] * z_arr.m[1][i]])

NC1 == [cls |-> "PTNumberCountsTracer", type |-> "NC",
        b1 |-> <<1, 1>>, b2 |-> <<2, 0>>, bs |-> <<3, 1>>]

NC2 == [cls |-> "PTNumberCountsTracer", type |-> "NC",
        b1 |-> <<2, 0>>, b2 |-> <<1, 1>>, bs |-> <<0, 2>>]

IA1 == [cls |-> "PTIntrinsicAlignmentTracer", type |-> "IA",
        c1 |-> <<1, 0>>, c2 |-> <<2, 1>>, cdelta |-> <<1, 1>>]

IA2 == [cls |-> "PTIntrinsicAlignmentTracer", type |-> "IA",
        c1 |-> <<2, 1>>, c2 |-> <<1, 0>>, cdelta |-> <<3, 0>>]

MT == [cls |-> "PTMatterTracer", type |-> "M"]

\* a PTTracer whose type tag is none of NC, IA, M
XT == [cls |-> "PTTracer", type |-> "X"]

\* an object that is no PTTracer
Obj == [cls |-> "object"]

NoneObj == [cls |-> "NoneType"]

IsPTTracer(x) == x.cls \in {"PTTracer", "PTNumberCountsTracer",
                            "PTIntrinsicAlignmentTracer", "PTMatterTracer"}

\* Cosmology evaluator (pyccl.power, pyccl.background, ccllib).  cosmo is a
\* cosmology 1..NumCosmo, ks the grid (a 1-d array), a a scale factor.
linear_matter_power(cosmo, ks, a) ==
    Vec([j \in 1..NCols(ks) |-> cosmo * ks.m[1][j] + 5 - a])

nonlin_matter_power(cosmo, ks, a) ==
    Vec([j \in 1..NCols(ks) |-> cosmo * ks.m[1][j] + 5 - a + ks.m[1][j] * ks.m[1][j]])

growth_factor(cosmo, a_arr) ==
    Vec([i \in 1..Len(a_arr) |-> IF a_arr[i] = 1 THEN 1 ELSE 1 + ((cosmo + a_arr[i]) % 2)])

\* lib.get_pk_spline_a: the scale factors of the cosmology's own splines
get_pk_spline_a(cosmo) == <<2, 1>>

\* The FAST-PT engine (fpt.FASTPT).  pt is the engine object, pk the linear
\* spectrum on the grid.  What the engine computes is opaque; each term is
\* a different function of pk.  The last entry of one_loop_dd_bias (the
\* low-k term read as dd_bias[7]) is one k-independent number, which
\* get_pgg multiplies by g4 without giving it a k axis.
RECURSIVE SumSeq(_)
SumSeq(s) == IF s = <<>> THEN 0 ELSE Head(s) + SumSeq(Tail(s))

Term(pk, c, d) == Vec([j \in 1..NCols(pk) |-> c * pk.m[1][j] + d + j])

FASTPT(ks, to_do) == [n |-> NCols(ks), to_do |-> to_do]

one_loop_dd_bias(pt, pk) ==
    << Term(pk, 1, 0), Term(pk, 2, 0), Term(pk, 3, 0), Term(pk, 4, 0),
       Term(pk, 5, 0), Term(pk, 6, 0), Term(pk, 7, 0),
       Scalar(SumSeq(pk.m[1])) >>

IA_ta(pt, pk) == << Term(pk, 1, 1), Term(pk, 2, 1), Term(pk, 3, 1), Term(pk, 4, 1) >>

IA_tt(pt, pk) == << Term(pk, 1, 2), Term(pk, 2, 2) >>

IA_mix(pt, pk) == << Term(pk, 1, 3), Term(pk, 2, 3), Term(pk, 3, 3), Term(pk, 4, 3) >>

\* t[i] of a Python tuple (0-based)
Item(t, i) == t[i + 1]

\* A call made during an operation.
\* name, positional array arguments, boolean keyword (sub_lowk / return_bb)
Ev(name, args, flag) == [ev |-> name, args |-> args, flag |-> flag]

(***************************************************************************)
(* PTCalculator                                                            *)
(***************************************************************************)
\* __init__: the grid has int((log10k_max - log10k_min) * nk_per_decade)
\* log-spaced points; the cache starts empty.
PTCalculator(with_NC, with_IA, log10k_min, log10k_max, nk_per_decade) ==
    LET to_do == {"one_loop_dd"} \cup (IF with_NC THEN {"dd_bias"} ELSE {})
                                 \cup (IF with_IA THEN {"IA"} ELSE {})
        nk_total == (log10k_max - log10k_min) * nk_per_decade
        ks == Vec([j \in 1..nk_total |-> j])
    IN  [with_NC |-> with_NC, with_IA |-> with_IA, ks |-> ks,
         pt |-> FASTPT(ks, to_do),
         dd_bias |-> None, ia_ta |-> None, ia_tt |-> None, ia_mix |-> None]

get_dd_bias(self, pk) == [self EXCEPT !.dd_bias = one_loop_dd_bias(self.pt, pk)]

get_ia_bias(self, pk) ==
    LET s1 == [self EXCEPT !.ia_ta = IA_ta(self.pt, pk)]
        s2 == [s1 EXCEPT !.ia_tt = IA_tt(self.pt, pk)]
    IN  [s2 EXCEPT !.ia_mix = IA_mix(self.pt, pk)]

\* update_pk that empties the cache before it checks the shape.
update_pk_clearing(self, pk) ==
    IF Shape(pk) # Shape(self.ks)
    THEN [exc |-> "ValueError",
          self |-> [self EXCEPT !.dd_bias = None, !.ia_ta = None,
                                !.ia_tt = None, !.ia_mix = None],
          log |-> <<>>]
    ELSE [exc |-> "none",
          self |-> IF self.with_IA
                   THEN get_ia_bias(IF self.with_NC THEN get_dd_bias(self, pk) ELSE self, pk)
                   ELSE IF self.with_NC THEN get_dd_bias(self, pk) ELSE self,
          log |-> (IF self.with_NC THEN <<Ev("one_loop_dd_bias", <<pk>>, FALSE)>> ELSE <<>>)
                  \o (IF self.with_IA
                      THEN <<Ev("IA_ta", <<pk>>, FALSE), Ev("IA_tt", <<pk>>, FALSE),
                             Ev("IA_mix", <<pk>>, FALSE)>>
                      ELSE <<>>)]

\* update_pk that computes only the bundles that are still empty.
update_pk_if_empty(self, pk) ==
    IF Shape(pk) # Shape(self.ks)
    THEN [exc |-> "ValueError", self |-> self, log |-> <<>>]
    ELSE LET s1 == IF self.with_NC /\ self.dd_bias = None THEN get_dd_bias(self, pk) ELSE self
             s2 == IF s1.with_IA /\ s1.ia_ta = None THEN get_ia_bias(s1, pk) ELSE s1
         IN  [exc |-> "none", self |-> s2,
              log |-> (IF self.with_NC /\ self.dd_bias = None
                       THEN <<Ev("one_loop_dd_bias", <<pk>>, FALSE)>> ELSE <<>>)
                      \o (IF self.with_IA /\ self.ia_ta = None
                          THEN <<Ev("IA_ta", <<pk>>, FALSE), Ev("IA_tt", <<pk>>, FALSE),
                                Ev("IA_mix", <<pk>>, FALSE)>>
                          ELSE <<>>)]

\* update_pk: [exc, self, log]
update_pk(self, pk) ==
    IF Shape(pk) # Shape(self.ks)
    THEN [exc |-> "ValueError", self |-> self, log |-> <<>>]
    ELSE LET s1 == IF self.with_NC THEN get_dd_bias(self, pk) ELSE self
             s2 == IF s1.with_IA THEN get_ia_bias(s1, pk) ELSE s1
         IN  [exc |-> "none", self |-> s2,
              log |-> (IF self.with_NC THEN <<Ev("one_loop_dd_bias", <<pk>>, FALSE)>> ELSE <<>>)
                      \o (IF self.with_IA
                          THEN <<Ev("IA_ta", <<pk>>, FALSE), Ev("IA_tt", <<pk>>, FALSE),
                                Ev("IA_mix", <<pk>>, FALSE)>>
                          ELSE <<>>)]

\* What a combination formula returns: the grid p (or the error raised) and
\* the warnings it emitted.
Out(p, warn) == [p |-> p, warn |-> warn]

\* Lines 160-164 and 171-177: the five correlator grids, then (166-169)
\* the low-k term s4, then the sum pgg; an exception comes from the first
\* statement that raises.
pgg_sum(dd_bias, Pd1d1, g4, b11, b21, bs1, b12, b22, bs2, s4) ==
    LET Pd1d2 == Mul(RowOf(g4), ColOf(Item(dd_bias, 2)))
        Pd2d2 == Mul(RowOf(g4), ColOf(Item(dd_bias, 3)))
        Pd1s2 == Mul(RowOf(g4), ColOf(Item(dd_bias, 4)))
        Pd2s2 == Mul(RowOf(g4), ColOf(Item(dd_bias, 5)))
        Ps2s2 == Mul(RowOf(g4), ColOf(Item(dd_bias, 6)))
        t1 == Mul(RowOf(Mul(b11, b12)), Pd1d1)
        t2 == Mul(Mul(Frac(1, 2), RowOf(Add(Mul(b11, b22), Mul(b12, b21)))), Pd1d2)
        t3 == Mul(Mul(Frac(1, 4), RowOf(Mul(b21, b22))),
                  Sub(Pd2d2, Mul(Scalar(2), s4)))
        t4 == Mul(Mul(Frac(1, 2), RowOf(Add(Mul(b11, bs2), Mul(b12, bs1)))), Pd1s2)
        t5 == Mul(Mul(Frac(1, 4), RowOf(Add(Mul(b21, bs2), Mul(b22, bs1)))),
                  Sub(Pd2s2, Mul(Frac(4, 3), s4)))
        t6 == Mul(Mul(Frac(1, 4), RowOf(Mul(bs1, bs2))),
                  Sub(Ps2s2, Mul(Frac(8, 9), s4)))
    IN  Then(Pd1d2, Then(Pd2d2, Then(Pd1s2, Then(Pd2s2, Then(Ps2s2, Then(s4,
            Add(Add(Add(Add(Add(t1, t2), t3), t4), t5), t6)))))))

\* get_pgg that never subtracts the low-k term.
get_pgg_nosub(self, Pd1d1, g4, b11, b21, bs1, b12, b22, bs2, sub_lowk) ==
    IF IsErr(RowOf(g4)) THEN Out(RowOf(g4), <<>>)
    ELSE IF self.dd_bias = None THEN Out(NoneSubscriptError, <<>>)
    ELSE Out(pgg_sum(self.dd_bias, Pd1d1, g4, b11, b21, bs1, b12, b22, bs2, Scalar(0)),
             <<>>)

\* g4[None, :] is evaluated first (line 160), then self.dd_bias[2].
get_pgg(self, Pd1d1, g4, b11, b21, bs1, b12, b22, bs2, sub_lowk) ==
    IF IsErr(RowOf(g4)) THEN Out(RowOf(g4), <<>>)
    ELSE IF self.dd_bias = None THEN Out(NoneSubscriptError, <<>>)
    ELSE Out(pgg_sum(self.dd_bias, Pd1d1, g4, b11, b21, bs1, b12, b22, bs2,
                     IF sub_lowk THEN RowOf(Mul(g4, Item(self.dd_bias, 7)))
                                 ELSE Scalar(0)),
             <<>>)

\* g4[None, :] is evaluated first (line 204), then self.dd_bias[2]; the
\* two correlator grids come before the sum.
get_pgm(self, Pd1d1, g4, b1, b2, bs) ==
    IF IsErr(RowOf(g4)) THEN Out(RowOf(g4), <<>>)
    ELSE IF self.dd_bias = None THEN Out(NoneSubscriptError, <<>>)
    ELSE
    LET Pd1d2 == Mul(RowOf(g4), ColOf(Item(self.dd_bias, 2)))
        Pd1s2 == Mul(RowOf(g4), ColOf(Item(self.dd_bias, 4)))
    IN  Out(Then(Pd1d2, Then(Pd1s2,
                Add(Add(Mul(RowOf(b1), Pd1d1),
                        Mul(Mul(Frac(1, 2), RowOf(b2)), Pd1d2)),
                    Mul(Mul(Frac(1, 2), RowOf(bs)), Pd1s2)))), <<>>)

\* c1 * Pd1d1 + (g4*cd) * (a00e + c00e) + (g4*c2) * (a0e2 + b0e2)
pim_sum(ia_ta, ia_mix, Pd1d1, g4, c1, c2, cd) ==
    LET a00e == Item(ia_ta, 0)
        c00e == Item(ia_ta, 1)
        a0e2 == Item(ia_mix, 0)
        b0e2 == Item(ia_mix, 1)
    IN  Add(Add(Mul(RowOf(c1), Pd1d1),
                Mul(RowOf(Mul(g4, cd)), ColOf(Add(a00e, c00e)))),
            Mul(RowOf(Mul(g4, c2)), ColOf(Add(a0e2, b0e2))))

get_pim(self, Pd1d1, g4, c1, c2, cd) ==
    IF self.ia_ta = None \/ self.ia_mix = None THEN Out(NoneSubscriptError, <<>>)
    ELSE Out(pim_sum(self.ia_ta, self.ia_mix, Pd1d1, g4, c1, c2, cd), <<>>)

LinearisedWarning == "linearly biased number counts"

\* get_pgi without its warning.
get_pgi_silent(self, Pd1d1, g4, b1, b2, bs, c1, c2, cd) ==
    IF self.ia_ta = None \/ self.ia_mix = None
    THEN Out(NoneSubscriptError, <<>>)
    ELSE Out(Mul(RowOf(b1), pim_sum(self.ia_ta, self.ia_mix, Pd1d1, g4, c1, c2, cd)),
             <<>>)

get_pgi(self, Pd1d1, g4, b1, b2, bs, c1, c2, cd) ==
    IF self.ia_ta = None \/ self.ia_mix = None
    THEN Out(NoneSubscriptError, <<LinearisedWarning>>)
    ELSE Out(Mul(RowOf(b1), pim_sum(self.ia_ta, self.ia_mix, Pd1d1, g4, c1, c2, cd)),
             <<LinearisedWarning>>)

get_pii(self, Pd1d1, g4, c11, c21, cd1, c12, c22, cd2, return_bb) ==
    IF self.ia_ta = None \/ self.ia_tt = None \/ self.ia_mix = None
    THEN Out(NoneSubscriptError, <<>>)
    ELSE
    LET a00e == Item(self.ia_ta, 0)
        c00e == Item(self.ia_ta, 1)
        a0e0e == Item(self.ia_ta, 2)
        a0b0b == Item(self.ia_ta, 3)
        ae2e2 == Item(self.ia_tt, 0)
        ab2b2 == Item(self.ia_tt, 1)
        a0e2 == Item(self.ia_mix, 0)
        b0e2 == Item(self.ia_mix, 1)
        d0ee2 == Item(self.ia_mix, 2)
        d0bb2 == Item(self.ia_mix, 3)
    IN  IF return_bb
        THEN Out(Add(Add(Mul(RowOf(Mul(cd1, cd2)), ColOf(a0b0b)),
                         Mul(RowOf(Mul(Mul(cd1, c22), g4)), ColOf(ab2b2))),
                     Mul(RowOf(Mul(Add(Mul(cd1, c22), Mul(cd1, c21)), g4)), ColOf(d0bb2))),
                 <<>>)
        ELSE Out(Add(Add(Add(Add(Add(
                    Mul(RowOf(Mul(Mul(c11, c12), g4)), Pd1d1),
                    Mul(RowOf(Mul(Add(Mul(c11, cd2), Mul(c12, cd1)), g4)),
                        ColOf(Add(a00e, c00e)))),
                    Mul(RowOf(Mul(Mul(cd1, cd2), g4)), ColOf(a0e0e))),
                    Mul(RowOf(Mul(Mul(c21, c22), g4)), ColOf(ae2e2))),
                    Mul(RowOf(Mul(Add(Mul(c11, c22), Mul(c21, c12)), g4)),
                        ColOf(Add(a0e2, b0e2)))),
                    Mul(RowOf(Mul(Add(Mul(cd1, c22), Mul(cd2, c21)), g4)), ColOf(d0ee2))),
                 <<>>)

(***************************************************************************)
(* get_pt_pk2d                                                             *)
(***************************************************************************)
ExcOf(p) == IF p.nd = -1 THEN "ValueError"
            ELSE IF p.nd = -2 THEN "TypeError"
            ELSE IF p.nd = -3 THEN "IndexError"
            ELSE "none"

\* The bias arrays of a number-counts tracer as get_pt_pk2d evaluates them
\* (b11, b21, bs1 / b12, b22, bs2): the third is tracer.b2(z_arr).
nc_bias_args(tracer, z_arr) ==
    << BiasAt(tracer.b1, z_arr), BiasAt(tracer.b2, z_arr), BiasAt(tracer.b2, z_arr) >>

\* c1, c2, cdelta of an intrinsic-alignment tracer
ia_bias_args(tracer, z_arr) ==
    << BiasAt(tracer.c1, z_arr), BiasAt(tracer.c2, z_arr), BiasAt(tracer.cdelta, z_arr) >>

\* np.array([power(cosmo, ptc.ks, a) for a in a_arr]).T : shape (N_k, N_a)
matter_grid(cosmo, ks, a_arr, use_nonlin) ==
    Transpose(Stack([i \in 1..Len(a_arr) |->
        IF use_nonlin THEN nonlin_matter_power(cosmo, ks, a_arr[i])
                      ELSE linear_matter_power(cosmo, ks, a_arr[i])]))

\* A call of a combination formula: what it raised, what it returned, and
\* the record of the call followed by the warnings it emitted.
Called(name, args, flag, out) ==
    [exc |-> ExcOf(out.p), p |-> out.p,
     log |-> <<Ev(name, args, flag)>>
             \o [i \in 1..Len(out.warn) |-> Ev("warn", <<>>, FALSE)]]

NotImplemented == [exc |-> "NotImplementedError", p |-> BroadcastError, log |-> <<>>]

\* Lines 453-479: tracer1 is a number-counts tracer.
dispatch_NC(self, tracer1, tracer2, z_arr, Pd1d1, ga4, sub_lowk, b) ==
    IF tracer2.type = "NC" THEN
        LET b2 == nc_bias_args(tracer2, z_arr) IN
        Called("get_pgg", <<Pd1d1, ga4, b[1], b[2], b[3], b2[1], b2[2], b2[3]>>, sub_lowk,
               get_pgg(self, Pd1d1, ga4, b[1], b[2], b[3], b2[1], b2[2], b2[3], sub_lowk))
    ELSE IF tracer2.type = "IA" THEN
        LET c == ia_bias_args(tracer2, z_arr) IN
        Called("get_pgi", <<Pd1d1, ga4, b[1], b[2], b[3], c[1], c[2], c[3]>>, FALSE,
               get_pgi(self, Pd1d1, ga4, b[1], b[2], b[3], c[1], c[2], c[3]))
    ELSE IF tracer2.type = "M" THEN
        Called("get_pgm", <<Pd1d1, ga4, b[1], b[2], b[3]>>, FALSE,
               get_pgm(self, Pd1d1, ga4, b[1], b[2], b[3]))
    ELSE NotImplemented

\* dispatch_IA without its IA-M branch.
dispatch_IA_without_M(self, tracer1, tracer2, z_arr, Pd1d1, ga4, return_ia_bb, c) ==
    IF tracer2.type = "IA" THEN
        LET c2 == ia_bias_args(tracer2, z_arr) IN
        Called("get_pii", <<Pd1d1, ga4, c[1], c[2], c[3], c2[1], c2[2], c2[3]>>, return_ia_bb,
               get_pii(self, Pd1d1, ga4, c[1], c[2], c[3], c2[1], c2[2], c2[3], return_ia_bb))
    ELSE IF tracer2.type = "NC" THEN
        LET b == nc_bias_args(tracer2, z_arr) IN
        Called("get_pgi", <<Pd1d1, ga4, b[1], b[2], b[3], c[1], c[2], c[3]>>, FALSE,
               get_pgi(self, Pd1d1, ga4, b[1], b[2], b[3], c[1], c[2], c[3]))
    ELSE NotImplemented

\* dispatch_IA handing get_pgi the biases in tracer order (tracer1's first).
dispatch_IA_by_position(self, tracer1, tracer2, z_arr, Pd1d1, ga4, return_ia_bb, c) ==
    IF tracer2.type = "IA" THEN
        LET c2 == ia_bias_args(tracer2, z_arr) IN
        Called("get_pii", <<Pd1d1, ga4, c[1], c[2], c[3], c2[1], c2[2], c2[3]>>, return_ia_bb,
               get_pii(self, Pd1d1, ga4, c[1], c[2], c[3], c2[1], c2[2], c2[3], return_ia_bb))
    ELSE IF tracer2.type = "NC" THEN
        LET b == nc_bias_args(tracer2, z_arr) IN
        Called("get_pgi", <<Pd1d1, ga4, c[1], c[2], c[3], b[1], b[2], b[3]>>, FALSE,
               get_pgi(self, Pd1d1, ga4, c[1], c[2], c[3], b[1], b[2], b[3]))
    ELSE IF tracer2.type = "M" THEN
        Called("get_pim", <<Pd1d1, ga4, c[1], c[2], c[3]>>, FALSE,
               get_pim(self, Pd1d1, ga4, c[1], c[2], c[3]))
    ELSE NotImplemented

\* Lines 480-502: tracer1 is an intrinsic-alignment tracer.
dispatch_IA(self, tracer1, tracer2, z_arr, Pd1d1, ga4, return_ia_bb, c) ==
    IF tracer2.type = "IA" THEN
        LET c2 == ia_bias_args(tracer2, z_arr) IN
        Called("get_pii", <<Pd1d1, ga4, c[1], c[2], c[3], c2[1], c2[2], c2[3]>>, return_ia_bb,
               get_pii(self, Pd1d1, ga4, c[1], c[2], c[3], c2[1], c2[2], c2[3], return_ia_bb))
    ELSE IF tracer2.type = "NC" THEN
        LET b == nc_bias_args(tracer2, z_arr) IN
        Called("get_pgi", <<Pd1d1, ga4, b[1], b[2], b[3], c[1], c[2], c[3]>>, FALSE,
               get_pgi(self, Pd1d1, ga4, b[1], b[2], b[3], c[1], c[2], c[3]))
    ELSE IF tracer2.type = "M" THEN
        Called("get_pim", <<Pd1d1, ga4, c[1], c[2], c[3]>>, FALSE,
               get_pim(self, Pd1d1, ga4, c[1], c[2], c[3]))
    ELSE NotImplemented

\* Lines 503-520: tracer1 is a matter tracer.
dispatch_M(self, tracer2, z_arr, Pd1d1, ga4) ==
    IF tracer2.type = "NC" THEN
        LET b == nc_bias_args(tracer2, z_arr) IN
        Called("get_pgm", <<Pd1d1, ga4, b[1], b[2], b[3]>>, FALSE,
               get_pgm(self, Pd1d1, ga4, b[1], b[2], b[3]))
    ELSE IF tracer2.type = "IA" THEN
        LET c == ia_bias_args(tracer2, z_arr) IN
        Called("get_pim", <<Pd1d1, ga4, c[1], c[2], c[3]>>, FALSE,
               get_pim(self, Pd1d1, ga4, c[1], c[2], c[3]))
    ELSE IF tracer2.type = "M" THEN
        [exc |-> "none", p |-> Pd1d1, log |-> <<>>]
    ELSE NotImplemented

\* The if / elif chain on (tracer1.type, tracer2.type), lines 453-523.
dispatch(self, tracer1, tracer2, z_arr, Pd1d1, ga4, sub_lowk, return_ia_bb) ==
    IF tracer1.type = "NC"
    THEN dispatch_NC(self, tracer1, tracer2, z_arr, Pd1d1, ga4, sub_lowk,
                     nc_bias_args(tracer1, z_arr))
    ELSE IF tracer1.type = "IA"
    THEN dispatch_IA(self, tracer1, tracer2, z_arr, Pd1d1, ga4, return_ia_bb,
                     ia_bias_args(tracer1, z_arr))
    ELSE IF tracer1.type = "M"
    THEN dispatch_M(self, tracer2, z_arr, Pd1d1, ga4)
    ELSE NotImplemented

\* The extrapolation orders of a Pk2D built without naming them.
Pk2D_extrap_order_lok == 1

Pk2D_extrap_order_hik == 2

\* Pk2D(a_arr=, lk_arr=, pk_arr=, is_logp=): the container as constructed.
Pk2D(a_arr, lk_arr, pk_arr, is_logp) ==
    [a_arr |-> a_arr, lk_arr |-> lk_arr, pk_arr |-> pk_arr, is_logp |-> is_logp,
     extrap_order_lok |-> Pk2D_extrap_order_lok,
     extrap_order_hik |-> Pk2D_extrap_order_hik]

NoSpectrum == Vec(<<>>)

\* What a get_pt_pk2d call did: the exception raised ("none": it returned
\* val), the calculator afterwards, the calls made, whether update_pk was
\* reached, and the z = 0 linear spectrum it was reached with.
Done(exc, self, val, calls, reached, pk0) ==
    [exc |-> exc, self |-> self, val |-> val, log |-> calls,
     reached |-> reached, pk0 |-> pk0]

\* package handing the container the (N_k, N_a) grid as dispatched.
package_untransposed(self, a_arr, calls, pk_lin_z0, d) ==
    IF d.exc # "none" THEN Done(d.exc, self, None, calls \o d.log, TRUE, pk_lin_z0)
    ELSE Done("none", self,
              Pk2D(a_arr, [j \in 1..NCols(self.ks) |-> LogOf(self.ks.m[1][j])],
                   d.p, FALSE),
              calls \o d.log, TRUE, pk_lin_z0)

\* Lines 540-545: package the dispatched grid d into the container.
package(self, a_arr, calls, pk_lin_z0, d) ==
    IF d.exc # "none" THEN Done(d.exc, self, None, calls \o d.log, TRUE, pk_lin_z0)
    ELSE Done("none", self,
              Pk2D(a_arr, [j \in 1..NCols(self.ks) |-> LogOf(self.ks.m[1][j])],
                   Transpose(d.p), FALSE),
              calls \o d.log, TRUE, pk_lin_z0)

\* Lines 434-523: growth factor, matter grid and dispatch, on the refreshed
\* calculator self.
combine(cosmo, tracer1, self, tracer2, sub_lowk, use_nonlin, a_arr, return_ia_bb, calls, pk_lin_z0) ==
    package(self, a_arr, calls, pk_lin_z0,
            dispatch(self, tracer1, tracer2, Vec([i \in 1..Len(a_arr) |-> a_arr[i] - 1]),
                     matter_grid(cosmo, self.ks, a_arr, use_nonlin),
                     Square(Square(growth_factor(cosmo, a_arr))),
                     sub_lowk, return_ia_bb))

\* Lines 428-432 onwards: u is what ptc.update_pk(pk_lin_z0) did.
refreshed(cosmo, tracer1, tracer2, sub_lowk, use_nonlin, a_arr, return_ia_bb, pk_lin_z0, u) ==
    IF u.exc # "none"
    THEN Done(u.exc, u.self, None, <<Ev("update_pk", <<pk_lin_z0>>, FALSE)>> \o u.log,
              TRUE, pk_lin_z0)
    ELSE combine(cosmo, tracer1, u.self, tracer2, sub_lowk, use_nonlin, a_arr, return_ia_bb,
                 <<Ev("update_pk", <<pk_lin_z0>>, FALSE)>> \o u.log, pk_lin_z0)

\* validated with the feature flags checked only after the refresh.
validated_after_refresh(cosmo, tracer1, self, tracer2, sub_lowk, use_nonlin, a_arr, return_ia_bb, pk_lin_z0) ==
    IF ~IsPTTracer(tracer1) \/ ~IsPTTracer(tracer2)
    THEN Done("TypeError", self, None, <<>>, FALSE, NoSpectrum)
    ELSE IF \/ (tracer1.type = "NC" \/ tracer2.type = "NC") /\ ~self.with_NC
            \/ (tracer1.type = "IA" \/ tracer2.type = "IA") /\ ~self.with_IA
    THEN Done("ValueError", update_pk(self, pk_lin_z0).self, None,
              <<Ev("update_pk", <<pk_lin_z0>>, FALSE)>> \o update_pk(self, pk_lin_z0).log,
              TRUE, pk_lin_z0)
    ELSE refreshed(cosmo, tracer1, tracer2, sub_lowk, use_nonlin, a_arr, return_ia_bb,
                   pk_lin_z0, update_pk(self, pk_lin_z0))

\* validated refreshing the cache only while it is empty.
validated_refresh_if_empty(cosmo, tracer1, self, tracer2, sub_lowk, use_nonlin, a_arr, return_ia_bb, pk_lin_z0) ==
    IF ~IsPTTracer(tracer1) \/ ~IsPTTracer(tracer2)
    THEN Done("TypeError", self, None, <<>>, FALSE, NoSpectrum)
    ELSE IF (tracer1.type = "NC" \/ tracer2.type = "NC") /\ ~self.with_NC
    THEN Done("ValueError", self, None, <<>>, FALSE, NoSpectrum)
    ELSE IF (tracer1.type = "IA" \/ tracer2.type = "IA") /\ ~self.with_IA
    THEN Done("ValueError", self, None, <<>>, FALSE, NoSpectrum)
    ELSE IF self.dd_bias # None \/ self.ia_ta # None
    THEN combine(cosmo, tracer1, self, tracer2, sub_lowk, use_nonlin, a_arr, return_ia_bb,
                 <<>>, pk_lin_z0)
    ELSE refreshed(cosmo, tracer1, tracer2, sub_lowk, use_nonlin, a_arr, return_ia_bb,
                   pk_lin_z0, update_pk(self, pk_lin_z0))

\* Lines 407-432: the checks, then the refresh.
validated(cosmo, tracer1, self, tracer2, sub_lowk, use_nonlin, a_arr, return_ia_bb, pk_lin_z0) ==
    IF ~IsPTTracer(tracer1) \/ ~IsPTTracer(tracer2)
    THEN Done("TypeError", self, None, <<>>, FALSE, NoSpectrum)
    ELSE IF (tracer1.type = "NC" \/ tracer2.type = "NC") /\ ~self.with_NC
    THEN Done("ValueError", self, None, <<>>, FALSE, NoSpectrum)
    ELSE IF (tracer1.type = "IA" \/ tracer2.type = "IA") /\ ~self.with_IA
    THEN Done("ValueError", self, None, <<>>, FALSE, NoSpectrum)
    ELSE refreshed(cosmo, tracer1, tracer2, sub_lowk, use_nonlin, a_arr, return_ia_bb,
                   pk_lin_z0, update_pk(self, pk_lin_z0))

\* get_pt_pk2d with the calculator ptc = self passed in.
get_pt_pk2d(cosmo, tracer1, self, tracer2, sub_lowk, use_nonlin, a_arr, extrap_order_lok, extrap_order_hik, return_ia_bb) ==
    validated(cosmo, tracer1, self,
              IF tracer2.cls = "NoneType" THEN tracer1 ELSE tracer2,
              sub_lowk, use_nonlin,
              IF a_arr = None THEN get_pk_spline_a(cosmo) ELSE a_arr,
              return_ia_bb,
              linear_matter_power(cosmo, self.ks, 1))

(***************************************************************************)
(* The state machine                                                       *)
(***************************************************************************)
CountEv(calls, names) == Cardinality({i \in 1..Len(calls) : calls[i].ev \in names})

EngineCalls == {"one_loop_dd_bias", "IA_ta", "IA_tt", "IA_mix"}

Formulas == {"get_pgg", "get_pgi", "get_pgm", "get_pii", "get_pim"}

Cosmos == 1..NumCosmo

\* a_arr = [1, 1/2, ..., 1/n]
AArrs == {[i \in 1..n |-> i] : n \in 1..MaxNa}

Calculators ==
    {PTCalculator(nc, ia, 0, 1, d) :
        nc \in BOOLEAN, ia \in BOOLEAN, d \in 1..MaxNk}

Init ==
    /\ ptc \in Calculators
    /\ op = [name |-> "init"]
    /\ ret = [exc |-> "none", val |-> None]
    /\ log = <<>>
    /\ cnt = [ops |-> 0, reached |-> 0, refresh |-> 0, engine |-> 0, changes |-> 0,
              last_pk |-> NoSpectrum]

\* An operation o was performed on the calculator and did r (as Done).
\* by_call: the operation is a get_pt_pk2d call.
Perform(o, r, by_call) ==
    /\ ptc' = r.self
    /\ op' = o
    /\ ret' = [exc |-> r.exc, val |-> r.val]
    /\ log' = r.log
    /\ cnt' = [ops |-> cnt.ops + 1,
               reached |-> cnt.reached + (IF by_call /\ r.reached THEN 1 ELSE 0),
               refresh |-> cnt.refresh + (IF by_call THEN CountEv(r.log, {"update_pk"}) ELSE 0),
               engine |-> cnt.engine + (IF by_call THEN CountEv(r.log, EngineCalls) ELSE 0),
               changes |-> cnt.changes
                           + (IF by_call /\ r.reached /\ r.pk0 # cnt.last_pk THEN 1 ELSE 0),
               last_pk |-> IF r.reached THEN r.pk0 ELSE cnt.last_pk]

\* A caller evaluates get_pt_pk2d on the shared calculator.
GetPtPk2d(cosmo, tracer1, tracer2, sub_lowk, use_nonlin, a_arr, extrap_order_lok, extrap_order_hik, return_ia_bb) ==
    Perform([name |-> "get_pt_pk2d", cosmo |-> cosmo, tracer1 |-> tracer1,
             tracer2 |-> tracer2, sub_lowk |-> sub_lowk, use_nonlin |-> use_nonlin,
             a_arr |-> a_arr, extrap_order_lok |-> extrap_order_lok,
             extrap_order_hik |-> extrap_order_hik, return_ia_bb |-> return_ia_bb],
            get_pt_pk2d(cosmo, tracer1, ptc, tracer2, sub_lowk, use_nonlin, a_arr,
                        extrap_order_lok, extrap_order_hik, return_ia_bb),
            TRUE)

\* update_pk called by a user of the calculator, as an operation
user_update_pk(self, pk, u) ==
    Done(u.exc, u.self, None, u.log, u.exc = "none", pk)

\* A caller refreshes the calculator directly.
UpdatePk(pk) ==
    Perform([name |-> "update_pk", pk |-> pk],
            user_update_pk(ptc, pk, update_pk(ptc, pk)), FALSE)

\* get_pgg called by a user of the calculator, as an operation
user_get_pgg(self, out) ==
    Done(ExcOf(out.p), self, out.p, <<>>, FALSE, NoSpectrum)

\* A caller evaluates get_pgg directly on the calculator.
GetPgg(Pd1d1, g4, b1, b2, sub_lowk) ==
    Perform([name |-> "get_pgg", Pd1d1 |-> Pd1d1, g4 |-> g4, b1 |-> b1, b2 |-> b2,
             sub_lowk |-> sub_lowk],
            user_get_pgg(ptc, get_pgg(ptc, Pd1d1, g4, b1[1], b1[2], b1[3],
                                      b2[1], b2[2], b2[3], sub_lowk)),
            FALSE)

\* The biases b1(z), b2(z), bs(z) of a number-counts tracer.
TrueBiases(t, a_arr) ==
    LET z == Vec([i \in 1..Len(a_arr) |-> a_arr[i] - 1])
    IN  <<BiasAt(t.b1, z), BiasAt(t.b2, z), BiasAt(t.bs, z)>>

\* Sequences of operations on one calculator.
Next ==
    /\ cnt.ops < MaxOps
    /\ \/ \E c \in Cosmos, t1 \in {NC1, IA1, MT} : \E t2 \in {t1, MT} :
            GetPtPk2d(c, t1, t2, FALSE, TRUE, [i \in 1..MaxNa |-> i], 1, 2, FALSE)
       \/ \E c \in Cosmos, n \in {NCols(ptc.ks), NCols(ptc.ks) + 1} :
            UpdatePk(linear_matter_power(c, Vec([j \in 1..n |-> j]), 1))
       \/ \E a \in AArrs, s \in BOOLEAN :
            GetPgg(matter_grid(1, ptc.ks, a, TRUE), Square(Square(growth_factor(1, a))),
                   TrueBiases(NC1, a), TrueBiases(NC2, a), s)

Spec == Init /\ [][Next]_vars

\* One get_pt_pk2d call with arguments of every kind, on a calculator that
\* is fresh or was refreshed before (with the spectrum of cosmology 1), over
\* the smallest and the largest grid.
InitArgs ==
    /\ \E p \in {q \in Calculators : q.ks.c \in {1, MaxNk}}, c \in {0, 1} :
          /\ ptc = IF c = 0 THEN p
                   ELSE update_pk(p, linear_matter_power(c, p.ks, 1)).self
          /\ cnt = [ops |-> 0, reached |-> 0, refresh |-> 0, engine |-> 0,
                    changes |-> 0,
                    last_pk |-> IF c = 0 THEN NoSpectrum
                                ELSE linear_matter_power(c, p.ks, 1)]
    /\ op = [name |-> "init"]
    /\ ret = [exc |-> "none", val |-> None]
    /\ log = <<>>

NextArgs ==
    /\ op.name = "init"
    /\ \E c \in {1, NumCosmo}, t1 \in {NC1, NC2, IA1, IA2, MT, XT, Obj},
          t2 \in {NC1, NC2, IA1, IA2, MT, XT, Obj, NoneObj},
          s \in BOOLEAN, nl \in BOOLEAN, a \in AArrs \cup {None},
          o \in {<<0, 1>>, <<1, 2>>}, bb \in BOOLEAN :
            GetPtPk2d(c, t1, t2, s, nl, a, o[1], o[2], bb)

SpecArgs == InitArgs /\ [][NextArgs]_vars

(***************************************************************************)
(* Two get_pt_pk2d evaluations running in two threads                      *)
(***************************************************************************)
\* In this specification ptc is <<calculator, calculator>>, op, ret and log
\* hold one entry per thread, and cnt holds the synchronisation mode, the
\* caller's lock and each thread's position.  Thread t evaluates
\* get_pt_pk2d statement by statement; a step is one statement that writes
\* or reads an attribute of the calculator.
Threads == {1, 2}

\* update_pk without the assignment of ia_mix.
update_pk_writes_without_mix(self) ==
    (IF self.with_NC THEN <<"dd_bias">> ELSE <<>>)
    \o (IF self.with_IA THEN <<"ia_ta", "ia_tt">> ELSE <<>>)

\* The assignments update_pk makes to the calculator, in order.
update_pk_writes(self) ==
    (IF self.with_NC THEN <<"dd_bias">> ELSE <<>>)
    \o (IF self.with_IA THEN <<"ia_ta", "ia_tt", "ia_mix">> ELSE <<>>)

\* The value one of those assignments stores: self.pt.<engine call>(pk)
engine_value(self, bundle, pk) ==
    IF bundle = "dd_bias" THEN one_loop_dd_bias(self.pt, pk)
    ELSE IF bundle = "ia_ta" THEN IA_ta(self.pt, pk)
    ELSE IF bundle = "ia_tt" THEN IA_tt(self.pt, pk)
    ELSE IA_mix(self.pt, pk)

\* One of those assignments: self.<bundle> = self.pt.<engine call>(pk)
assign_bundle(self, bundle, pk) == [self EXCEPT ![bundle] = engine_value(self, bundle, pk)]

\* The reads of self.<bundle> a combination formula makes, in order, as
\* <<bundle, item>>: self.dd_bias[item], or the whole tuple (item -1) where
\* the formula unpacks it.
formula_reads(name, flag) ==
    IF name = "get_pgg"
    THEN <<<<"dd_bias", 2>>, <<"dd_bias", 3>>, <<"dd_bias", 4>>, <<"dd_bias", 5>>,
           <<"dd_bias", 6>>>> \o (IF flag THEN <<<<"dd_bias", 7>>>> ELSE <<>>)
    ELSE IF name = "get_pgm" THEN <<<<"dd_bias", 2>>, <<"dd_bias", 4>>>>
    ELSE IF name \in {"get_pim", "get_pgi"} THEN <<<<"ia_ta", -1>>, <<"ia_mix", -1>>>>
    ELSE IF name = "get_pii" THEN <<<<"ia_ta", -1>>, <<"ia_tt", -1>>, <<"ia_mix", -1>>>>
    ELSE <<>>

\* The reads of the formula a dispatch invokes (calls is what it called).
reads_of(calls) ==
    IF calls = <<>> THEN <<>> ELSE formula_reads(calls[1].ev, calls[1].flag)

\* What a thread has read of the calculator so far: nothing.
NothingRead(self) ==
    [self EXCEPT !.dd_bias = [n \in 1..8 |-> NoneSubscriptError],
                 !.ia_ta = None, !.ia_tt = None, !.ia_mix = None]

\* What a thread has read, after it read <<bundle, item>> as value v.
WithRead(seen, bundle, item, v) ==
    IF item < 0 THEN [seen EXCEPT ![bundle] = v]
    ELSE [seen EXCEPT ![bundle] = [@ EXCEPT ![item + 1] = v[item + 1]]]

\* The calculator thread t works on.
Own(t) == IF cnt.mode = "private" THEN t ELSE 1

\* The arguments of thread t's call after their defaults, and its z = 0
\* linear spectrum.
ThreadT2(t) == IF op[t].tracer2.cls = "NoneType" THEN op[t].tracer1 ELSE op[t].tracer2

ThreadA(t) == IF op[t].a_arr = None THEN get_pk_spline_a(op[t].cosmo) ELSE op[t].a_arr

ThreadPk(t) == linear_matter_power(op[t].cosmo, ptc[Own(t)].ks, 1)

\* Thread t is at position pc with the steps todo left.
AtStep(t, pc, todo) == [cnt EXCEPT !.pc[t] = pc, !.todo[t] = todo]

\* Thread t leaves get_pt_pk2d with outcome r (and its caller releases the
\* lock it holds).
Leave(t, r) ==
    /\ ret' = [ret EXCEPT ![t] = [exc |-> r.exc, val |-> r.val]]
    /\ cnt' = [cnt EXCEPT !.pc[t] = "done", !.todo[t] = <<>>,
                          !.lock = IF @ = t THEN 0 ELSE @]

\* The caller of thread t takes the lock before it calls get_pt_pk2d.
Acquire(t) ==
    /\ cnt.mode = "locked" /\ cnt.pc[t] = "idle" /\ cnt.lock = 0
    /\ cnt' = [cnt EXCEPT !.lock = t, !.pc[t] = "start"]
    /\ UNCHANGED <<ptc, op, ret, log>>

\* Lines 401-432 and 99-100: defaults and checks, up to the first
\* assignment of update_pk.  probe is what the call does when nothing
\* interleaves (the checks depend on no bundle).
Enter(t, probe) ==
    /\ cnt.pc[t] = "start"
    /\ IF probe.exc \in {"TypeError", "ValueError"} /\ probe.log = <<>>
       THEN Leave(t, probe) /\ UNCHANGED <<ptc, op, log>>
       ELSE /\ cnt' = AtStep(t, "update_pk", update_pk_writes(ptc[Own(t)]))
            /\ UNCHANGED <<ptc, op, ret, log>>

\* One assignment of update_pk; after the last, lines 434-451 and the
\* dispatch to a formula, whose reads come next.
Write(t, calls) ==
    /\ cnt.pc[t] = "update_pk"
    /\ IF cnt.todo[t] = <<>>
       THEN /\ cnt' = AtStep(t, "formula", reads_of(calls))
            /\ UNCHANGED ptc
       ELSE /\ ptc' = [ptc EXCEPT ![Own(t)] =
                          assign_bundle(@, Head(cnt.todo[t]), ThreadPk(t))]
            /\ cnt' = AtStep(t, "update_pk", Tail(cnt.todo[t]))
    /\ UNCHANGED <<op, ret, log>>

\* One read of a bundle by the formula: TypeError when the bundle is None.
Read(t, bundle, item, v) ==
    /\ cnt.pc[t] = "formula" /\ cnt.todo[t] # <<>>
    /\ IF v = None
       THEN /\ Leave(t, [exc |-> "TypeError", val |-> None])
            /\ UNCHANGED <<ptc, op, log>>
       ELSE /\ log' = [log EXCEPT ![t] =
                          Append(@, [ev |-> "read", bundle |-> bundle, item |-> item,
                                     val |-> IF item < 0 THEN v ELSE v[item + 1]])]
            /\ cnt' = [cnt EXCEPT !.todo[t] = Tail(@),
                                  !.seen[t] = WithRead(@, bundle, item, v)]
            /\ UNCHANGED <<ptc, op, ret>>

\* The formula computes from what it read, and get_pt_pk2d returns the
\* container: r is combine on the bundles as read.
Return(t, r) ==
    /\ cnt.pc[t] = "formula" /\ cnt.todo[t] = <<>>
    /\ Leave(t, r)
    /\ UNCHANGED <<ptc, op, log>>

\* combine for thread t's call on the calculator (or bundles read) self
ThreadCombine(t, self) ==
    combine(op[t].cosmo, op[t].tracer1, self, ThreadT2(t), op[t].sub_lowk,
            op[t].use_nonlin, ThreadA(t), op[t].return_ia_bb, <<>>, ThreadPk(t))

\* get_pt_pk2d for thread t's call on the calculator self, uninterrupted
ThreadCall(t, self) ==
    get_pt_pk2d(op[t].cosmo, op[t].tracer1, self, op[t].tracer2, op[t].sub_lowk,
                op[t].use_nonlin, op[t].a_arr, op[t].extrap_order_lok,
                op[t].extrap_order_hik, op[t].return_ia_bb)

\* The calls the threads make: tracer pairs that reach every formula.
ThreadPairs == {<<NC1, NC2>>, <<NC1, MT>>, <<NC1, IA1>>, <<IA1, IA2>>, <<MT, IA1>>, <<MT, NoneObj>>}

ThreadCallOf(c, pair) ==
    [name |-> "get_pt_pk2d", cosmo |-> c, tracer1 |-> pair[1], tracer2 |-> pair[2],
     sub_lowk |-> TRUE, use_nonlin |-> FALSE, a_arr |-> [i \in 1..MaxNa |-> i],
     extrap_order_lok |-> 1, extrap_order_hik |-> 2, return_ia_bb |-> FALSE]

\* Two evaluations with different cosmologies (different linear spectra) on
\* one shared calculator, with or without a caller's lock around each call,
\* or on one calculator each.
InitThreads ==
    \E mode \in {"shared", "locked", "private"}, nc \in BOOLEAN, ia \in BOOLEAN,
       p1 \in ThreadPairs, p2 \in ThreadPairs :
        LET calc == PTCalculator(nc, ia, 0, 1, MaxNk) IN
        /\ ptc = <<calc, calc>>
        /\ op = <<ThreadCallOf(1, p1), ThreadCallOf(NumCosmo, p2)>>
        /\ ret = [t \in Threads |-> [exc |-> "none", val |-> None]]
        /\ log = [t \in Threads |-> <<>>]
        /\ cnt = [mode |-> mode, lock |-> 0,
                  pc |-> [t \in Threads |-> IF mode = "locked" THEN "idle" ELSE "start"],
                  todo |-> [t \in Threads |-> <<>>],
                  seen |-> [t \in Threads |-> NothingRead(calc)]]

NextThreads ==
    \E t \in Threads :
        \/ Acquire(t)
        \/ Enter(t, ThreadCall(t, ptc[Own(t)]))
        \/ Write(t, ThreadCombine(t, ptc[Own(t)]).log)
        \/ /\ cnt.pc[t] = "formula" /\ cnt.todo[t] # <<>>
           /\ Read(t, Head(cnt.todo[t])[1], Head(cnt.todo[t])[2],
                   ptc[Own(t)][Head(cnt.todo[t])[1]])
        \/ Return(t, ThreadCombine(t, cnt.seen[t]))

SpecThreads == InitThreads /\ [][NextThreads]_vars

(***************************************************************************)
(* Properties                                                              *)
(***************************************************************************)
IsCall == op.name = "get_pt_pk2d"

\* The tracers and scale factors the call works with, after its defaults.
CallT1 == op.tracer1

CallT2 == IF op.tracer2.cls = "NoneType" THEN op.tracer1 ELSE op.tracer2

CallA == IF op.a_arr = None THEN get_pk_spline_a(op.cosmo) ELSE op.a_arr

\* Both tracers are PTTracers of type NC, IA or M.
TypedCall ==
    /\ IsCall
    /\ IsPTTracer(CallT1) /\ IsPTTracer(CallT2)
    /\ CallT1.type \in {"NC", "IA", "M"} /\ CallT2.type \in {"NC", "IA", "M"}

Involves(ty) == CallT1.type = ty \/ CallT2.type = ty

Pair(ty1, ty2) == CallT1.type = ty1 /\ CallT2.type = ty2

FlagsCover == (Involves("NC") => ptc.with_NC) /\ (Involves("IA") => ptc.with_IA)

IsFormulaEv(e) == e.ev \in Formulas

IsWarnEv(e) == e.ev = "warn"

\* The combination formulas the last operation invoked, in order.
FormulaCalls == SelectSeq(log, IsFormulaEv)

FormulaNames == [i \in 1..Len(FormulaCalls) |-> FormulaCalls[i].ev]

ExpectedFormulas ==
    IF Pair("NC", "NC") THEN <<"get_pgg">>
    ELSE IF Pair("NC", "IA") \/ Pair("IA", "NC") THEN <<"get_pgi">>
    ELSE IF Pair("NC", "M") \/ Pair("M", "NC") THEN <<"get_pgm">>
    ELSE IF Pair("IA", "IA") THEN <<"get_pii">>
    ELSE IF Pair("IA", "M") \/ Pair("M", "IA") THEN <<"get_pim">>
    ELSE <<>>

\* The matter power spectrum of the call at grid wavenumber j and scale
\* factor sample i.
MatterPower(j, i) ==
    IF op.use_nonlin THEN nonlin_matter_power(op.cosmo, ptc.ks, CallA[i]).m[1][j]
                     ELSE linear_matter_power(op.cosmo, ptc.ks, CallA[i]).m[1][j]

\* C1: for every ordered pair of tracer types in {NC, IA, M} x {NC, IA, M}
\* that the calculator's flags cover, get_pt_pk2d invokes exactly one
\* combination formula exactly once (NC-NC get_pgg, NC-IA and IA-NC get_pgi,
\* NC-M and M-NC get_pgm, IA-IA get_pii, IA-M and M-IA get_pim), M-M invokes
\* none and returns the matter grid itself, and NotImplementedError is never
\* raised.
C1_Dispatch ==
    (TypedCall /\ FlagsCover) =>
        /\ ret.exc # "NotImplementedError"
        /\ FormulaNames = ExpectedFormulas
        /\ Pair("M", "M") =>
              /\ ret.exc = "none"
              /\ \A i \in 1..Len(CallA) : \A j \in 1..ptc.ks.c :
                    SameNumber(ret.val.pk_arr.m[i][j], ret.val.pk_arr.den,
                               MatterPower(j, i), 1)

C1_Witness ==
    /\ TypedCall /\ FlagsCover
    /\ Pair("IA", "M")
    /\ FormulaNames = <<"get_pim">>
    /\ ret.exc = "none"

\* The three bias arguments at positions from+1 .. from+3 of a formula call.
BiasArgs(call, from) == <<call.args[from + 1], call.args[from + 2], call.args[from + 3]>>

\* C2: in every dispatch that involves a number-counts tracer, the three
\* bias arguments handed to the formula for that tracer are b1(z), b2(z)
\* and bs(z) of the tracer; the tidal argument is the tracer's bs.
C2_TidalBiasIsBs ==
    (TypedCall /\ FlagsCover /\ Involves("NC") /\ Len(FormulaCalls) = 1) =>
        /\ CallT1.type = "NC" =>
              BiasArgs(FormulaCalls[1], 2) = TrueBiases(CallT1, CallA)
        /\ (Pair("NC", "NC")) =>
              BiasArgs(FormulaCalls[1], 5) = TrueBiases(CallT2, CallA)
        /\ (Pair("IA", "NC") \/ Pair("M", "NC")) =>
              BiasArgs(FormulaCalls[1], 2) = TrueBiases(CallT2, CallA)

\* C3: the container of every successful call carries the extrapolation
\* orders asked for (low-k order = extrap_order_lok, high-k order =
\* extrap_order_hik) and is stored in linear space.
C3_ExtrapOrders ==
    (IsCall /\ ret.exc = "none") =>
        /\ ret.val.extrap_order_lok = op.extrap_order_lok
        /\ ret.val.extrap_order_hik = op.extrap_order_hik
        /\ ret.val.is_logp = FALSE

\* A get_pt_pk2d call o on calculator p whose tracers need a feature that
\* p was built without.
FlagMismatch(o, p) ==
    /\ o.name = "get_pt_pk2d"
    /\ IsPTTracer(o.tracer1)
    /\ IsPTTracer(IF o.tracer2.cls = "NoneType" THEN o.tracer1 ELSE o.tracer2)
    /\ LET t2 == IF o.tracer2.cls = "NoneType" THEN o.tracer1 ELSE o.tracer2
       IN  \/ (o.tracer1.type = "NC" \/ t2.type = "NC") /\ ~p.with_NC
           \/ (o.tracer1.type = "IA" \/ t2.type = "IA") /\ ~p.with_IA

\* C4: a call whose tracers need number counts or intrinsic alignments on a
\* calculator built without them raises ValueError before anything is
\* computed: no update_pk, no engine call, no formula, and the cached
\* bundles are what they were before the call.
C4_FlagErrorBeforeComputation ==
    [][FlagMismatch(op', ptc) =>
          /\ ret'.exc = "ValueError"
          /\ log' = <<>>
          /\ ptc' = ptc]_vars

C4_Witness ==
    /\ FlagMismatch(op, ptc)
    /\ ret.exc = "ValueError"
    /\ log = <<>>
    /\ ptc.ia_ta # None
    /\ ~ptc.with_NC
    /\ CallT2.type = "NC" /\ CallT1.type = "IA"

\* C5: update_pk with a spectrum whose shape differs from the grid's raises
\* ValueError and leaves every cached bundle as it was.
C5_WrongShapeLeavesCache ==
    [][(op'.name = "update_pk" /\ Shape(op'.pk) # Shape(ptc.ks)) =>
          /\ ret'.exc = "ValueError"
          /\ ptc'.dd_bias = ptc.dd_bias
          /\ ptc'.ia_ta = ptc.ia_ta
          /\ ptc'.ia_tt = ptc.ia_tt
          /\ ptc'.ia_mix = ptc.ia_mix]_vars

C5_Witness ==
    /\ op.name = "update_pk"
    /\ Shape(op.pk) # Shape(ptc.ks)
    /\ ret.exc = "ValueError"
    /\ ptc.dd_bias # None
    /\ ptc.ia_mix # None

\* A direct get_pgg call on a calculator whose cache is populated.
IsPggCall == op.name = "get_pgg" /\ ptc.dd_bias # None

\* 36 times the pgg formula at wavenumber index j and redshift index i of
\* the last get_pgg call, for a low-k term of value s4 there.
PggAt(j, i, s4) ==
    LET g == op.g4.m[1][i]
        dd(n) == Item(ptc.dd_bias, n).m[1][j]
        b11 == op.b1[1].m[1][i]
        b21 == op.b1[2].m[1][i]
        bs1 == op.b1[3].m[1][i]
        b12 == op.b2[1].m[1][i]
        b22 == op.b2[2].m[1][i]
        bs2 == op.b2[3].m[1][i]
    IN  36 * b11 * b12 * op.Pd1d1.m[j][i]
        + 18 * (b11 * b22 + b12 * b21) * g * dd(2)
        + 9 * (b21 * b22) * g * dd(3) - 18 * (b21 * b22) * s4
        + 18 * (b11 * bs2 + b12 * bs1) * g * dd(4)
        + 9 * (b21 * bs2 + b22 * bs1) * g * dd(5) - 12 * (b21 * bs2 + b22 * bs1) * s4
        + 9 * (bs1 * bs2) * g * dd(6) - 8 * (bs1 * bs2) * s4

\* The low-k term at (j, i) of the last get_pgg call: "outer" is
\* g4[i] * dd_bias[7][j], "white" is g4[i] * dd_bias[7], "zero" is 0.
LowK(kind, j, i) ==
    IF kind = "outer" THEN op.g4.m[1][i] * At(Item(ptc.dd_bias, 7), 1, j)
    ELSE IF kind = "white" THEN op.g4.m[1][i] * Item(ptc.dd_bias, 7).m[1][1]
    ELSE 0

\* The last get_pgg call returned the (N_k, N_z) grid of the pgg formula
\* with the low-k term of that kind.
ReturnsPgg(kind) ==
    /\ ret.exc = "none"
    /\ Shape(ret.val) = <<NCols(ptc.ks), NCols(op.g4)>>
    /\ \A j \in 1..NCols(ptc.ks) : \A i \in 1..NCols(op.g4) :
          SameNumber(ret.val.m[j][i], ret.val.den, PggAt(j, i, LowK(kind, j, i)), 36)

\* C6 as stated: dd_bias[7] is indexed by wavenumber (one entry per grid
\* point) and get_pgg returns the pgg formula with the low-k term
\* s4[j,i] = g4[i] * dd_bias[7][j], the outer product of g4 with it, when
\* sub_lowk is set (for every N_k and N_z), and with s4 = 0 otherwise.
C6_OuterProductLowK ==
    IsPggCall =>
        /\ op.sub_lowk => Shape(Item(ptc.dd_bias, 7)) = Shape(ptc.ks)
        /\ ReturnsPgg(IF op.sub_lowk THEN "outer" ELSE "zero")

\* C6 amended: dd_bias[7] is one number, not indexed by wavenumber; with
\* sub_lowk set get_pgg returns the pgg formula with the low-k term
\* s4[j,i] = g4[i] * dd_bias[7], the same at every wavenumber index j, for
\* every N_k and N_z, and with sub_lowk unset it returns the formula with
\* s4 = 0.
C6_WhiteNoiseLowK ==
    IsPggCall =>
        /\ op.sub_lowk => Shape(Item(ptc.dd_bias, 7)) = <<>>
        /\ ReturnsPgg(IF op.sub_lowk THEN "white" ELSE "zero")

C6_Witness ==
    /\ IsPggCall /\ op.sub_lowk
    /\ Item(ptc.dd_bias, 7).m[1][1] # 0
    /\ NCols(ptc.ks) > NCols(op.g4) /\ NCols(op.g4) > 1
    /\ ret.exc = "none"
    /\ \E i \in 1..NCols(op.g4) : op.b1[2].m[1][i] * op.b2[2].m[1][i] # 0

\* The last get_pt_pk2d call evaluated on calculator p with its two tracers
\* exchanged.
SwappedCall(o, p) ==
    get_pt_pk2d(o.cosmo, o.tracer2, p, o.tracer1, o.sub_lowk, o.use_nonlin, o.a_arr,
                o.extrap_order_lok, o.extrap_order_hik, o.return_ia_bb)

\* C7: for an NC tracer and an IA tracer, and the same cosmology,
\* calculator and scale factors, get_pt_pk2d gives the same outcome and the
\* same power grid in both tracer orders, and get_pgi receives the same
\* arguments (NC biases first, IA coefficients second) in both.
C7_OrderSwap ==
    [][(TypedCall /\ FlagsCover /\ (Pair("NC", "IA") \/ Pair("IA", "NC")))' =>
          /\ ret'.exc = SwappedCall(op', ptc).exc
          /\ ret'.val = SwappedCall(op', ptc).val
          /\ SelectSeq(log', IsFormulaEv) = SelectSeq(SwappedCall(op', ptc).log, IsFormulaEv)
          /\ ptc' = SwappedCall(op', ptc).self]_vars

C7_Witness ==
    /\ TypedCall /\ FlagsCover /\ Pair("IA", "NC")
    /\ ret.exc = "none"
    /\ FormulaNames = <<"get_pgi">>
    /\ FormulaCalls[1].args[3] = BiasAt(CallT2.b1, Vec([i \in 1..Len(CallA) |-> CallA[i] - 1]))
    /\ FormulaCalls[1].args[3] # FormulaCalls[1].args[6]
    /\ Len(CallA) > 1 /\ NCols(ptc.ks) > 1

\* C8: when both tracers are matter tracers the call succeeds whatever
\* sub_lowk, return_ia_bb and the calculator's flags are, no combination
\* formula is applied, and the grid in the container has shape (N_a, N_k)
\* with the entry for scale factor a_i and wavenumber k_j equal to the
\* matter power spectrum at (k_j, a_i).
C8_MatterMatter ==
    (TypedCall /\ Pair("M", "M")) =>
        /\ ret.exc = "none"
        /\ FormulaCalls = <<>>
        /\ ret.val.a_arr = CallA
        /\ Shape(ret.val.pk_arr) = <<Len(CallA), NCols(ptc.ks)>>
        /\ ret.val.pk_arr.den = 1
        /\ \A i \in 1..Len(CallA) : \A j \in 1..NCols(ptc.ks) :
              ret.val.pk_arr.m[i][j] = MatterPower(j, i)

C8_Witness ==
    /\ TypedCall /\ Pair("M", "M")
    /\ op.sub_lowk /\ op.return_ia_bb /\ ~op.use_nonlin
    /\ ~ptc.with_NC /\ ~ptc.with_IA
    /\ Len(CallA) = 2 /\ NCols(ptc.ks) = MaxNk
    /\ ret.exc = "none"
    /\ ret.val.pk_arr.m[1][MaxNk] # ret.val.pk_arr.m[2][MaxNk]

\* C9: every get_pgi invocation is followed by exactly one
\* linearised-approximation warning; a covered NC-IA or IA-NC call emits it
\* once and still returns its container; calls of every other kind emit no
\* warning.
C9_WarningPerInvocation ==
    IsCall =>
        /\ \A n \in 1..Len(log) :
              /\ log[n].ev = "get_pgi" =>
                    /\ n < Len(log) /\ IsWarnEv(log[n + 1])
                    /\ (n + 1 < Len(log) => ~IsWarnEv(log[n + 2]))
              /\ IsWarnEv(log[n]) => (n > 1 /\ log[n - 1].ev = "get_pgi")
        /\ IF TypedCall /\ FlagsCover /\ (Pair("NC", "IA") \/ Pair("IA", "NC"))
           THEN /\ CountEv(log, {"warn"}) = 1
                /\ ret.exc = "none"
                /\ Shape(ret.val.pk_arr) = <<Len(CallA), NCols(ptc.ks)>>
           ELSE CountEv(log, {"warn"}) = 0

C9_Witness ==
    /\ TypedCall /\ FlagsCover /\ Pair("NC", "IA")
    /\ CountEv(log, {"warn"}) = 1
    /\ CountEv(log, {"get_pgi"}) = 1
    /\ ret.exc = "none"
    /\ ptc.with_NC /\ ptc.with_IA

\* The engine calls one refresh of this calculator makes.
EnginePerRefresh == (IF ptc.with_NC THEN 1 ELSE 0) + (IF ptc.with_IA THEN 3 ELSE 0)

\* C10 as stated: over a sequence of get_pt_pk2d calls on one calculator the
\* cache is refreshed once per change of the z = 0 linear spectrum; a call
\* with the spectrum the cache was last refreshed with invokes neither
\* update_pk nor the engine, so refreshes = changes of spectrum.
C10_RefreshPerDistinctSpectrum ==
    /\ cnt.refresh = cnt.changes
    /\ cnt.engine = cnt.changes * EnginePerRefresh

\* C10 amended: every get_pt_pk2d call that passes its argument checks
\* refreshes the cache exactly once, whether or not its z = 0 linear
\* spectrum is the one of the last refresh, and each refresh invokes the
\* engine once per enabled bundle; refreshes = such calls.
C10_RefreshPerCall ==
    /\ cnt.refresh = cnt.reached
    /\ cnt.engine = cnt.reached * EnginePerRefresh
    /\ (IsCall /\ TypedCall /\ FlagsCover) =>
          /\ CountEv(log, {"update_pk"}) = 1
          /\ log[1].ev = "update_pk"
          /\ log[1].args = <<linear_matter_power(op.cosmo, ptc.ks, 1)>>
          /\ CountEv(log, EngineCalls) = EnginePerRefresh

C10_Witness ==
    /\ cnt.reached = 2 /\ cnt.changes = 1 /\ cnt.refresh = 2
    /\ cnt.engine = 8
    /\ IsCall /\ cnt.last_pk = linear_matter_power(op.cosmo, ptc.ks, 1)
    /\ ret.exc = "none"

\* The calculator self as constructed: no bundle computed yet.
Fresh(self) == [self EXCEPT !.dd_bias = None, !.ia_ta = None, !.ia_tt = None, !.ia_mix = None]

\* What the read e of thread t returns when the bundle was computed from
\* the z = 0 linear spectrum pk.
ValueFrom(t, e, pk) ==
    IF e.item < 0 THEN engine_value(ptc[Own(t)], e.bundle, pk)
    ELSE engine_value(ptc[Own(t)], e.bundle, pk)[e.item + 1]

\* Thread t read the bundle from its own call's spectrum / from the other
\* thread's.
ReadOwn(t, bundle) ==
    \E n \in 1..Len(log[t]) :
        log[t][n].bundle = bundle /\ log[t][n].val = ValueFrom(t, log[t][n], ThreadPk(t))

ReadOther(t, bundle) ==
    \E n \in 1..Len(log[t]) : \E u \in Threads \ {t} :
        log[t][n].bundle = bundle /\ log[t][n].val = ValueFrom(t, log[t][n], ThreadPk(u))

\* C11: with a lock around each get_pt_pk2d call (update_pk and the
\* combination that follows) or with one calculator per evaluation, every
\* bundle a formula reads was computed from the spectrum of its own
\* evaluation, and each evaluation returns what it returns when run alone
\* on a new calculator; the unsynchronised interleavings on a shared
\* calculator are the ones in which a formula reads the other evaluation's
\* bundles or IA bundles of two different spectra (C11_Witness).
C11_SynchronisedIsSafe ==
    cnt.mode \in {"locked", "private"} =>
        \A t \in Threads :
            /\ \A n \in 1..Len(log[t]) :
                  log[t][n].val = ValueFrom(t, log[t][n], ThreadPk(t))
            /\ cnt.pc[t] = "done" =>
                  /\ ret[t].exc = ThreadCall(t, Fresh(ptc[Own(t)])).exc
                  /\ ret[t].val = ThreadCall(t, Fresh(ptc[Own(t)])).val

C11_Witness ==
    /\ cnt.mode = "shared"
    /\ ThreadPk(1) # ThreadPk(2)
    /\ \E t \in Threads :
          /\ cnt.pc[t] = "done" /\ ret[t].exc = "none"
          /\ ReadOwn(t, "ia_ta") /\ ReadOther(t, "ia_mix")
          /\ ret[t].val # ThreadCall(t, Fresh(ptc[1])).val
    /\ \E t \in Threads :
          /\ cnt.pc[t] = "done" /\ ret[t].exc = "none"
          /\ ReadOther(t, "dd_bias") /\ ~ReadOwn(t, "dd_bias")

\* The get_pt_pk2d call o evaluated on calculator p.
CallOn(o, p) ==
    get_pt_pk2d(o.cosmo, o.tracer1, p, o.tracer2, o.sub_lowk, o.use_nonlin, o.a_arr,
                o.extrap_order_lok, o.extrap_order_hik, o.return_ia_bb)

\* The bundles the formula call e reads.
BundlesRead(e) ==
    {formula_reads(e.ev, e.flag)[k][1] : k \in 1..Len(formula_reads(e.ev, e.flag))}

\* C12: in a sequence of operations on one reused calculator, every bundle
\* the formula of a get_pt_pk2d call reads is non-None and is the bundle
\* computed from the z = 0 linear spectrum of that call, whatever was
\* cached before; the call raises no TypeError and returns what it returns
\* on a newly constructed calculator.
C12_ReadsOwnSpectrum ==
    (TypedCall /\ FlagsCover) =>
        /\ ret.exc # "TypeError"
        /\ \A n \in 1..Len(FormulaCalls) : \A b \in BundlesRead(FormulaCalls[n]) :
              /\ ptc[b] # None
              /\ ptc[b] = engine_value(ptc, b, linear_matter_power(op.cosmo, ptc.ks, 1))
        /\ ret.exc = CallOn(op, Fresh(ptc)).exc
        /\ ret.val = CallOn(op, Fresh(ptc)).val

C12_Witness ==
    /\ TypedCall /\ FlagsCover /\ Pair("IA", "IA")
    /\ cnt.reached = 2 /\ cnt.changes = 2
    /\ FormulaNames = <<"get_pii">>
    /\ BundlesRead(FormulaCalls[1]) = {"ia_ta", "ia_tt", "ia_mix"}
    /\ ret.exc = "none"
    /\ ptc.ia_tt # engine_value(ptc, "ia_tt", linear_matter_power(1, ptc.ks, 1))

\* The get_pt_pk2d call o (tracer2 = None standing for tracer1) evaluated on
\* calculator p with its two tracers exchanged.
ExchangedCall(o, p) ==
    get_pt_pk2d(o.cosmo, IF o.tracer2.cls = "NoneType" THEN o.tracer1 ELSE o.tracer2, p,
                o.tracer1, o.sub_lowk, o.use_nonlin, o.a_arr,
                o.extrap_order_lok, o.extrap_order_hik, o.return_ia_bb)

\* C13: for every tracer-type pair other than NC-IA the combined spectrum
\* does not depend on the order of the two tracers: get_pt_pk2d(t1, t2) and
\* get_pt_pk2d(t2, t1) on the same calculator give the same outcome and the
\* same power grid for NC-NC, NC-M / M-NC, IA-M / M-IA and IA-IA, for
\* return_ia_bb = False and for return_ia_bb = True.
C13_TracerExchange ==
    [][(TypedCall /\ FlagsCover /\ ~Pair("NC", "IA") /\ ~Pair("IA", "NC"))' =>
          /\ ret'.exc = ExchangedCall(op', ptc).exc
          /\ ret'.val = ExchangedCall(op', ptc).val]_vars

====
